---- MODULE Spec2Model ----
(***************************************************************************)
(* Erlang-C staffing engine of app.py: prob_call_waits, service_level,     *)
(* occupancy and agents_required.                                          *)
(*                                                                         *)
(* Number representation.                                                  *)
(*  - calls, reporting_period_minutes, average_handling_time,              *)
(*    service_level_time and agents are integers, as the UI supplies them. *)
(*  - The three fractional policy parameters (service_level_target,        *)
(*    max_occupancy_target, shrinkage_percent) are given as integers       *)
(*    counting 1/Unit, so 0.80 is 80000 and 0.00001 is 1; FDec turns such  *)
(*    a count into the Python float written with that decimal.             *)
(*  - A Python float is IEEE 754 binary64: <<s, m, e>> stands for          *)
(*    (-1)^s * M * 2^e, where the mantissa M is held in four limbs         *)
(*    m = <<m0, m1, m2, m3>> of LimbBits bits, least significant first.    *)
(*    A normal number has 2^52 <= M < 2^53 and EMin <= e <= EMax, a        *)
(*    subnormal has M < 2^52 and e = EMin, zero has M = 0 and e = 0,       *)
(*    infinity has e = EInf and nan has e = ENaN.  Every operation rounds  *)
(*    its exact result to nearest, ties to even.                           *)
(*  - math.exp is the one operation whose last bit Python leaves to the C  *)
(*    library: Exp(x) is the set of floats the call can return, and        *)
(*    service_level and agents_required, which depend on it, are the sets  *)
(*    of values those functions can return.                                *)
(***************************************************************************)
EXTENDS Integers, Sequences, FiniteSets, TLC

\* ------------------------------------------------------------------------
\* Program constants
\* ------------------------------------------------------------------------
Unit == 100000
SecondsPerMinute == 60
MinReportingPeriod == 5
MaxReportingPeriod == 1500
MinHandlingTime == 1
MaxHandlingTime == 30000
MinServiceLevelTarget == 1
MaxServiceLevelTarget == 99980
MinOccupancyTarget == 1
MaxOccupancyTarget == 99980
MinServiceLevelTime == 1
MaxServiceLevelTime == 30000
MinShrinkage == 0
MaxShrinkage == 99980
ShrinkageClamp == 99000
OccupancyClamp == 99000
AdvisoryLimit == 600

\* binary64: bits of the mantissa and the exponent above the largest finite value.
MantBits == 53
MaxExp == 1024
\* Bits of one limb of a mantissa.
LimbBits == 14
\* Limbs after the point, and the most terms, of the series computing math.exp.
ExpLimbs == 6
ExpTerms == 24

\* ------------------------------------------------------------------------
\* Multi-limb naturals
\*
\* An operator's argument is evaluated wherever the operator's body uses it.  The
\* form  CHOOSE r \in {e(v) : v \in {x}} : TRUE  evaluates x once, names its value
\* v, and is e(v); the arithmetic below uses it so that no term is computed twice.
\* ------------------------------------------------------------------------
Base == 2 ^ LimbBits

\* Limb i of a, 0 outside a.
Get(a, i) == IF i >= 1 /\ i <= Len(a) THEN a[i] ELSE 0

\* The number of bits of n, for 0 <= n < Base.
BitLen(n) ==
    IF n = 0 THEN 0
    ELSE CHOOSE k \in 1..LimbBits : n < 2 ^ k /\ n >= 2 ^ (k - 1)

\* Index of the highest non-zero limb of a, 0 when a is zero.
TopLimb(a) ==
    CHOOSE r \in {CHOOSE i \in 0..Len(v) :
                     /\ i = 0 \/ v[i] # 0
                     /\ \A j \in (i + 1)..Len(v) : v[j] = 0 : v \in {a}} : TRUE

\* The number of bits of a.
Bits(a) ==
    CHOOSE r \in {CHOOSE n \in {IF i = 0 THEN 0 ELSE LimbBits * (i - 1) + BitLen(v[i]) :
                                i \in {TopLimb(v)}} : TRUE : v \in {a}} : TRUE

\* Bit p (from 0) of a.
Bit(a, p) == (Get(a, (p \div LimbBits) + 1) \div (2 ^ (p % LimbBits))) % 2

\* TRUE when a has a non-zero bit below bit p.
LowBits(a, p) ==
    \/ \E j \in 1..(p \div LimbBits) : Get(a, j) # 0
    \/ Get(a, (p \div LimbBits) + 1) % (2 ^ (p % LimbBits)) # 0

\* Limbs t (any integers) with the carries propagated: Len(t) limbs in 0..Base-1
\* followed by the carry out of the last one (negative when the sum is negative).
RECURSIVE CarryFrom(_, _, _)
CarryFrom(t, i, c) ==
    IF i > Len(t) THEN <<c>>
    ELSE CHOOSE r \in {<<u % Base>> \o CarryFrom(t, j, u \div Base) :
                       u \in {t[i] + c}, j \in {i + 1}} : TRUE

Carry(t) == CHOOSE r \in {CarryFrom(v, 1, 0) : v \in {t}} : TRUE

\* The first n limbs of floor(a / 2^k).
ShiftRight(a, k, n) ==
    CHOOSE r \in {SubSeq([j \in 1..n |->
                            (Get(v, j + q) \div (2 ^ b))
                            + (Get(v, j + q + 1) % (2 ^ b)) * (2 ^ (LimbBits - b))],
                         1, n) :
                  v \in {a}, q \in {k \div LimbBits}, b \in {k % LimbBits}} : TRUE

\* The first n limbs of a * 2^k.
ShiftLeft(a, k, n) ==
    CHOOSE r \in {SubSeq([j \in 1..n |->
                            (Get(v, j - q) % (2 ^ (LimbBits - b))) * (2 ^ b)
                            + (Get(v, j - q - 1) \div (2 ^ (LimbBits - b)))],
                         1, n) :
                  v \in {a}, q \in {k \div LimbBits}, b \in {k % LimbBits}} : TRUE

\* a + b and a - b limb by limb over n limbs, carries propagated.
Plus(a, b, n) ==
    CHOOSE r \in {Carry([j \in 1..n |-> Get(u, j) + Get(v, j)]) : u \in {a}, v \in {b}} : TRUE

Minus(a, b, n) ==
    CHOOSE r \in {Carry([j \in 1..n |-> Get(u, j) - Get(v, j)]) : u \in {a}, v \in {b}} : TRUE

\* The integer of at most three limbs (below 2^31).
IntOfLimbs(a) ==
    CHOOSE r \in {Get(v, 1) + Get(v, 2) * Base + Get(v, 3) * Base * Base : v \in {a}} : TRUE

\* The limbs of n, for 0 <= n < 2^31.
LimbsOfInt(n) ==
    CHOOSE r \in {<<v % Base, (v \div Base) % Base, v \div (Base * Base)>> : v \in {n}} : TRUE

\* ------------------------------------------------------------------------
\* Python floats (IEEE 754 binary64, round to nearest, ties to even)
\* ------------------------------------------------------------------------
MantLimbs == (MantBits + LimbBits - 1) \div LimbBits
MinExp == 3 - MaxExp
\* Exponent of the last mantissa bit: least, greatest, and the marks of inf and nan.
EMin == MinExp - MantBits
EMax == MaxExp - MantBits
EInf == MaxExp
ENaN == MaxExp + 1

MZero == <<0, 0, 0, 0>>

FZero == <<0, MZero, 0>>
FNegZero == <<1, MZero, 0>>
FInf(s) == <<s, MZero, EInf>>
FNaN == <<0, MZero, ENaN>>

IsNaN(x) == x[3] = ENaN
IsInf(x) == x[3] = EInf
IsFinite(x) == x[3] < EInf
IsZero(x) == x[3] < EInf /\ x[2] = MZero

\* m + 1 for a mantissa m, with the exponent: 2^53 becomes 2^52 one exponent up.
MantUp(s, m, e) ==
    CHOOSE r \in {IF t[5] # 0 \/ t[4] >= 2 ^ (MantBits - 3 * LimbBits)
                  THEN <<s, <<0, 0, 0, 2 ^ (MantBits - 1 - 3 * LimbBits)>>, e + 1>>
                  ELSE <<s, SubSeq(t, 1, 4), e>> :
                  t \in {Carry(<<m[1] + 1, m[2], m[3], m[4]>>)}} : TRUE

\* Overflow to inf, and the canonical zero.
Finish64(x) ==
    CHOOSE r \in {IF v[2] = MZero THEN <<v[1], MZero, 0>>
                  ELSE IF v[3] > EMax THEN FInf(v[1])
                  ELSE v : v \in {x}} : TRUE

\* The float nearest to (-1)^s * a * 2^e, where `sticky` says that the exact value
\* lies strictly between a * 2^e and (a + 1) * 2^e.
RoundBy(s, a, e, sticky, shift) ==
    CHOOSE r \in {
        IF k > 0
        THEN CHOOSE q \in {
                 IF Bit(a, k - 1) = 1 /\ (sticky \/ LowBits(a, k - 1) \/ m[1] % 2 = 1)
                 THEN Finish64(MantUp(s, m, e + k))
                 ELSE Finish64(<<s, m, e + k>>) :
                 m \in {ShiftRight(a, k, MantLimbs)}} : TRUE
        ELSE Finish64(<<s, ShiftLeft(a, -k, MantLimbs), e + k>>) :
        k \in {shift}} : TRUE

\* The bits dropped from a * 2^e: those beyond MantBits, and those below 2^EMin.
RoundShift(a, e) ==
    CHOOSE d \in {IF n - MantBits > EMin - e THEN n - MantBits ELSE EMin - e :
                  n \in {Bits(a)}} : TRUE

Round(s, a, e, sticky) ==
    CHOOSE r \in {RoundBy(s, v, e, sticky, RoundShift(v, e)) : v \in {a}} : TRUE

FInt(n) ==
    CHOOSE r \in {Round(IF v < 0 THEN 1 ELSE 0, LimbsOfInt(IF v < 0 THEN -v ELSE v), 0, FALSE) :
                  v \in {n}} : TRUE

FOne == FInt(1)

FNeg(x) == CHOOSE r \in {IF IsNaN(v) THEN v ELSE <<1 - v[1], v[2], v[3]>> : v \in {x}} : TRUE

\* x normalised for division: mantissa of exactly MantBits bits (subnormals shifted).
Normal(x) ==
    CHOOSE r \in {
        CHOOSE z \in {<<v[1], ShiftLeft(v[2], MantBits - n, MantLimbs), v[3] - (MantBits - n)>> :
                      n \in {Bits(v[2])}} : TRUE :
        v \in {x}} : TRUE

\* The columns of the product of two mantissas.
MulColumns(a, b) ==
    <<a[1] * b[1],
      a[1] * b[2] + a[2] * b[1],
      a[1] * b[3] + a[2] * b[2] + a[3] * b[1],
      a[1] * b[4] + a[2] * b[3] + a[3] * b[2] + a[4] * b[1],
      a[2] * b[4] + a[3] * b[3] + a[4] * b[2],
      a[3] * b[4] + a[4] * b[3],
      a[4] * b[4]>>

\* x * y
FMul(x, y) ==
    CHOOSE r \in {
        IF IsNaN(u) \/ IsNaN(v) THEN FNaN
        ELSE IF IsInf(u) \/ IsInf(v)
            THEN (IF IsZero(u) \/ IsZero(v) THEN FNaN ELSE FInf((u[1] + v[1]) % 2))
        ELSE IF IsZero(u) \/ IsZero(v) THEN <<(u[1] + v[1]) % 2, MZero, 0>>
        ELSE Round((u[1] + v[1]) % 2, Carry(MulColumns(u[2], v[2])), u[3] + v[3], FALSE) :
        u \in {x}, v \in {y}} : TRUE

\* One limb of long division: for rem < d, both below 2^MantBits and d of MantBits
\* bits, <<floor(rem * Base / d), rem * Base mod d>>.  The quotient limb is
\* estimated from the leading bits and is then off by at most one.
DivDigit(rem, d) ==
    CHOOSE r \in {
        CHOOSE s \in {
            IF t[6] < 0
            THEN <<qh - 1, SubSeq(Plus(SubSeq(t, 1, 5), d, 5), 1, 4)>>
            ELSE CHOOSE z \in {IF w[6] < 0 THEN <<qh, SubSeq(t, 1, 4)>>
                               ELSE <<qh + 1, SubSeq(w, 1, 4)>> :
                               w \in {Minus(SubSeq(t, 1, 5), d, 5)}} : TRUE :
            t \in {Carry(<<-(qh * d[1]), rem[1] - qh * d[2], rem[2] - qh * d[3],
                           rem[3] - qh * d[4], rem[4]>>)}} : TRUE :
        qh \in {CHOOSE h \in {IF g >= Base THEN Base - 1 ELSE g :
                              g \in {((rem[2] \div 512) + rem[3] * 32 + rem[4] * 524288)
                                     \div ((d[3] \div 512) + d[4] * 32)}} : TRUE}} : TRUE

\* <<floor(a * 2^56 / b) as five limbs, remainder>> for mantissas a, b of MantBits bits.
MantDiv(a, b) ==
    CHOOSE r \in {
        CHOOSE r1 \in {
            CHOOSE r2 \in {
                CHOOSE r3 \in {
                    CHOOSE r4 \in {
                        <<<<s4[1], s3[1], s2[1], s1[1], s0[1]>>, s4[2]>> :
                        s4 \in {DivDigit(s3[2], b)}} : TRUE :
                    s3 \in {DivDigit(s2[2], b)}} : TRUE :
                s2 \in {DivDigit(s1[2], b)}} : TRUE :
            s1 \in {DivDigit(s0[2], b)}} : TRUE :
        s0 \in {CHOOSE z \in {IF w[5] < 0 THEN <<0, a>> ELSE <<1, SubSeq(w, 1, 4)>> :
                              w \in {Minus(a, b, 4)}} : TRUE}} : TRUE

\* x / y for y # 0 (the caller raises ZeroDivisionError first).
FDiv(x, y) ==
    CHOOSE r \in {
        IF IsNaN(u) \/ IsNaN(v) THEN FNaN
        ELSE IF IsInf(u) THEN (IF IsInf(v) THEN FNaN ELSE FInf((u[1] + v[1]) % 2))
        ELSE IF IsInf(v) \/ IsZero(u) THEN <<(u[1] + v[1]) % 2, MZero, 0>>
        ELSE CHOOSE z \in {
                 CHOOSE w \in {Round((u[1] + v[1]) % 2, q[1], p[3] - d[3] - 4 * LimbBits,
                                     q[2] # MZero) :
                               q \in {MantDiv(p[2], d[2])}} : TRUE :
                 p \in {Normal(u)}, d \in {Normal(v)}} : TRUE :
        u \in {x}, v \in {y}} : TRUE

\* hi + lo for finite non-zero hi, lo with hi[3] >= lo[3].
AddOrdered(hi, lo) ==
    IF hi[3] - lo[3] > MantBits + 2 THEN hi
    ELSE CHOOSE r \in {
             IF hi[1] = lo[1] THEN Round(hi[1], Plus(big, lo[2], 8), lo[3], FALSE)
             ELSE CHOOSE z \in {
                      IF t[9] < 0
                      THEN Round(lo[1], SubSeq(Minus(lo[2], big, 8), 1, 8), lo[3], FALSE)
                      ELSE IF TopLimb(SubSeq(t, 1, 8)) = 0 THEN FZero
                      ELSE Round(hi[1], SubSeq(t, 1, 8), lo[3], FALSE) :
                      t \in {Minus(big, lo[2], 8)}} : TRUE :
             big \in {ShiftLeft(hi[2], hi[3] - lo[3], 8)}} : TRUE

\* x + y
FAdd(x, y) ==
    CHOOSE r \in {
        IF IsNaN(u) \/ IsNaN(v) THEN FNaN
        ELSE IF IsInf(u) THEN (IF IsInf(v) /\ u[1] # v[1] THEN FNaN ELSE u)
        ELSE IF IsInf(v) THEN v
        ELSE IF IsZero(u) THEN (IF IsZero(v) /\ u[1] # v[1] THEN FZero ELSE v)
        ELSE IF IsZero(v) THEN u
        ELSE IF u[3] >= v[3] THEN AddOrdered(u, v)
        ELSE AddOrdered(v, u) :
        u \in {x}, v \in {y}} : TRUE

FSub(x, y) == FAdd(x, FNeg(y))

\* x < y, x == y, x <= y (all false when either is nan)
FLess(x, y) ==
    CHOOSE r \in {~IsNaN(d) /\ ~IsZero(d) /\ d[1] = 1 : d \in {FSub(x, y)}} : TRUE

FEq(x, y) ==
    CHOOSE r \in {~IsNaN(u) /\ ~IsNaN(v) /\ (u = v \/ (IsZero(u) /\ IsZero(v))) :
                  u \in {x}, v \in {y}} : TRUE

FLeq(x, y) == CHOOSE r \in {FLess(u, v) \/ FEq(u, v) : u \in {x}, v \in {y}} : TRUE

\* min(x, y) and max(x, y) as Python computes them: the first argument unless the
\* second is smaller (larger).
FMin(x, y) == CHOOSE r \in {IF FLess(v, u) THEN v ELSE u : u \in {x}, v \in {y}} : TRUE

FMax(x, y) == CHOOSE r \in {IF FLess(u, v) THEN v ELSE u : u \in {x}, v \in {y}} : TRUE

\* int(x): x truncated toward zero, for |x| < 2^31.
FTrunc(x) ==
    CHOOSE r \in {(1 - 2 * v[1])
                  * (IF v[3] >= 0 THEN IntOfLimbs(ShiftLeft(v[2], v[3], 3))
                     ELSE IntOfLimbs(ShiftRight(v[2], -v[3], 3))) : v \in {x}} : TRUE

\* math.ceil(x), for |x| < 2^31.
FCeil(x) ==
    CHOOSE r \in {IF v[1] = 0 /\ v[3] < 0 /\ LowBits(v[2], -v[3]) THEN FTrunc(v) + 1
                  ELSE FTrunc(v) : v \in {x}} : TRUE

\* The float written as the decimal k / Unit.
FDec(k) == FDiv(FInt(k), FInt(Unit))

\* ------------------------------------------------------------------------
\* math.exp.  Python hands the argument to the C library's exp, whose last bit is
\* the library's choice: it returns one of the two floats enclosing e^x (its error
\* stays below one unit in the last place), usually but not always the nearer one.
\* Exp(x) is therefore the set of those two floats.  e^x is computed by
\* x = k * ln 2 + r with 0 <= r < ln 2 and the series of e^r in fixed point with
\* ExpLimbs limbs after the point.
\* ------------------------------------------------------------------------
\* floor(ln 2 * Base^(ExpLimbs + 1))
Ln2 == <<3680, 7739, 10994, 3961, 8007, 8575, 11356>>

\* floor(|x| * Base^(ExpLimbs + 1)) for a finite x with |x| < 2^11.
ExpFixed(x) ==
    CHOOSE r \in {IF k >= 0 THEN ShiftLeft(x[2], k, ExpLimbs + 3)
                  ELSE ShiftRight(x[2], -k, ExpLimbs + 3) :
                  k \in {x[3] + LimbBits * (ExpLimbs + 1)}} : TRUE

\* t - k * ln 2 in the same fixed point, carries propagated.
ExpLess(t, k) == Carry([j \in 1..(ExpLimbs + 3) |-> Get(t, j) - k * Get(Ln2, j)])

\* <<k, r>> with t = k * ln 2 + r and 0 <= r < ln 2: k is estimated from the
\* leading bits, one too small at worst.
ExpReduceFrom(t, k) ==
    CHOOSE z \in {IF w[ExpLimbs + 4] < 0 THEN <<k, SubSeq(u, 1, ExpLimbs + 1)>>
                  ELSE <<k + 1, SubSeq(w, 1, ExpLimbs + 1)>> :
                  u \in {ExpLess(t, k)}, w \in {ExpLess(t, k + 1)}} : TRUE

ExpReduce(t) ==
    CHOOSE r \in {
        CHOOSE z \in {ExpReduceFrom(v, k) :
                      k \in {(IntOfLimbs(ShiftRight(v, LimbBits * ExpLimbs, 3)) * 4)
                             \div (Get(Ln2, ExpLimbs + 1) * 4 + 3)}} : TRUE :
        v \in {t}} : TRUE

\* a * b for fractions a, b of ExpLimbs limbs, truncated to ExpLimbs limbs.
FracMul(a, b) ==
    CHOOSE r \in {SubSeq(t, 2, ExpLimbs + 1) :
                  t \in {Carry(<<a[1] * b[6] + a[2] * b[5] + a[3] * b[4] + a[4] * b[3]
                                   + a[5] * b[2] + a[6] * b[1],
                                 a[2] * b[6] + a[3] * b[5] + a[4] * b[4] + a[5] * b[3]
                                   + a[6] * b[2],
                                 a[3] * b[6] + a[4] * b[5] + a[5] * b[4] + a[6] * b[3],
                                 a[4] * b[6] + a[5] * b[5] + a[6] * b[4],
                                 a[5] * b[6] + a[6] * b[5],
                                 a[6] * b[6]>>)}} : TRUE

\* floor(a / n) for a fraction a and 1 <= n < Base, from the top limb down.
RECURSIVE FracDivFrom(_, _, _, _)
FracDivFrom(a, n, i, rem) ==
    IF i = 0 THEN <<>>
    ELSE CHOOSE r \in {FracDivFrom(a, n, j, u % n) \o <<u \div n>> :
                       u \in {rem * Base + a[i]}, j \in {i - 1}} : TRUE

FracDiv(a, n) == CHOOSE r \in {FracDivFrom(v, n, Len(v), 0) : v \in {a}} : TRUE

\* s = <<n, term, sum>>: the next term r^n / n! added to the sum (ExpLimbs limbs
\* and the integer part).
ExpStep(s, r) ==
    CHOOSE z \in {<<s[1] + 1, term, SubSeq(Plus(s[3], term, ExpLimbs + 1), 1, ExpLimbs + 1)>> :
                  term \in {FracDiv(FracMul(s[2], r), s[1] + 1)}} : TRUE

RECURSIVE ExpSeries(_, _)
ExpSeries(s, r) ==
    IF s[1] >= ExpTerms \/ TopLimb(s[2]) = 0 THEN s[3]
    ELSE CHOOSE z \in {ExpSeries(t, v) : t \in {ExpStep(s, r)}, v \in {r}} : TRUE

\* e^r * Base^ExpLimbs for the fraction r (ExpLimbs limbs), 0 <= r < ln 2.
ExpFrac(r) ==
    CHOOSE z \in {
        CHOOSE w \in {ExpSeries(s, v) :
                      s \in {<<1, v, SubSeq(Plus(v, <<0, 0, 0, 0, 0, 0, 1>>, ExpLimbs + 1),
                                             1, ExpLimbs + 1)>>}} : TRUE :
        v \in {r}} : TRUE

\* The two floats enclosing a positive value that lies strictly between a * 2^e
\* and (a + 1) * 2^e: the value rounded down and rounded up.
RoundBoth(a, e) ==
    CHOOSE r \in {
        CHOOSE q \in {{Finish64(<<0, m, e + k>>), Finish64(MantUp(0, m, e + k))} :
                      m \in {IF k > 0 THEN ShiftRight(a, k, MantLimbs)
                             ELSE ShiftLeft(a, -k, MantLimbs)}} : TRUE :
        k \in {RoundShift(a, e)}} : TRUE

\* The series leaves e^r * Base^ExpLimbs strictly between a - ExpBelow and
\* a + ExpAbove for the value a it returns (every truncation loses less than one
\* unit of the last limb).
ExpBelow == 1
ExpAbove == 64

\* The floats enclosing every value strictly between (a - ExpBelow) * 2^e and
\* (a + ExpAbove) * 2^e: two floats, or three when a float lies in between.
ExpEnclosing(a, e) ==
    CHOOSE r \in {RoundBoth(Minus(v, <<ExpBelow>>, ExpLimbs + 1), e)
                  \cup RoundBoth(Plus(v, <<ExpAbove - 1>>, ExpLimbs + 1), e) :
                  v \in {a}} : TRUE

\* The floats enclosing e^|x| (s = 0) or e^-|x| (s = 1) for |x| = k * ln 2 + r,
\* given kr = <<k, r>>; e^-|x| is 2^-(k + 1) * e^(ln 2 - r).
ExpReduced(s, kr) ==
    IF s = 0
    THEN ExpEnclosing(ExpFrac(SubSeq(kr[2], 2, ExpLimbs + 1)), kr[1] - LimbBits * ExpLimbs)
    ELSE CHOOSE q \in {ExpEnclosing(ExpFrac(SubSeq(nr, 2, ExpLimbs + 1)),
                                    -(kr[1] + 1) - LimbBits * ExpLimbs) :
                       nr \in {Minus(Ln2, kr[2], ExpLimbs + 1)}} : TRUE

\* The smallest positive float, 2^EMin.
FTiny == <<0, <<1, 0, 0, 0>>, EMin>>

\* The float just below 1.
FBelowOne == <<0, <<Base - 1, Base - 1, Base - 1, 2 ^ (MantBits - 3 * LimbBits) - 1>>, -MantBits>>

\* The float just above 1.
FAboveOne == <<0, <<1, 0, 0, 2 ^ (MantBits - 1 - 3 * LimbBits)>>, 1 - MantBits>>

\* math.exp(x) for a finite x whose mantissa has n bits: 1 for a zero, otherwise
\* the floats enclosing e^x (1 and its neighbour on the side of x when
\* |x| < 2^-53), or inf alone when e^x lies above the largest float.
ExpFinite(v, n) ==
    IF IsZero(v) THEN {FOne}
    ELSE IF n + v[3] <= -MantBits THEN (IF v[1] = 0 THEN {FOne, FAboveOne} ELSE {FBelowOne, FOne})
    ELSE IF n + v[3] > 11 THEN (IF v[1] = 0 THEN {FInf(0)} ELSE {FZero, FTiny})
    ELSE CHOOSE w \in {IF FInf(0) \in b THEN {FInf(0)} ELSE b :
                       b \in {ExpReduced(v[1], ExpReduce(ExpFixed(v)))}} : TRUE

\* math.exp(x): the values the call can return, with inf standing for
\* OverflowError when x is finite.
Exp(x) ==
    CHOOSE z \in {
        IF IsNaN(v) THEN {v}
        ELSE IF IsInf(v) THEN (IF v[1] = 0 THEN {v} ELSE {FZero})
        ELSE CHOOSE w \in {ExpFinite(v, n) : n \in {Bits(v[2])}} : TRUE :
        v \in {x}} : TRUE

\* TRUE when math.exp(x) raises OverflowError.
ExpOverflows(x) == CHOOSE r \in {IsFinite(v) /\ FInf(0) \in Exp(v) : v \in {x}} : TRUE

\* ------------------------------------------------------------------------
\* intensity (offered load in Erlangs)
\* ------------------------------------------------------------------------
\* (calls / (reporting_period_minutes * 60)) raises ZeroDivisionError.
IntensityRaises(reporting_period_minutes) == reporting_period_minutes = 0

\* (calls / (reporting_period_minutes * 60)) * average_handling_time
Intensity(calls, reporting_period_minutes, average_handling_time) ==
    FMul(FDiv(FInt(calls), FInt(reporting_period_minutes * SecondsPerMinute)),
         FInt(average_handling_time))

\* ------------------------------------------------------------------------
\* prob_call_waits
\* ------------------------------------------------------------------------
\* One pass of "for k in range(agents, -1, -1)" on <<k, A_n, sum_A_k>>.
ErlangStep(s, intensity) ==
    CHOOSE r \in {<<s[1] - 1, A_k, FAdd(s[3], A_k)>> :
                  A_k \in {FDiv(FMul(s[2], FInt(s[1])), intensity)}} : TRUE

\* The whole loop: sum_A_k when k has run below 0.
RECURSIVE ErlangLoop(_, _)
ErlangLoop(s, intensity) ==
    IF s[1] < 0 THEN s[3]
    ELSE CHOOSE r \in {ErlangLoop(t, i) : t \in {ErlangStep(s, intensity)},
                                          i \in {intensity}} : TRUE

ErlangSum(agents, intensity) ==
    CHOOSE v \in {ErlangLoop(<<agents, FOne, FZero>>, i) : i \in {intensity}} : TRUE

\* 1 + ((1 - max_occupancy_percent) * sum_A_k), the denominator of prob.
ErlangDenominator(intensity, agents) ==
    CHOOSE r \in {FAdd(FOne, FMul(FSub(FOne, FDiv(i, FInt(agents))), ErlangSum(agents, i))) :
                  i \in {intensity}} : TRUE

\* TRUE when the try block raises ZeroDivisionError before the last line: a zero
\* reporting period, no agents, or a zero intensity inside the loop.
ProbRaises(calls, reporting_period_minutes, average_handling_time, agents) ==
    \/ IntensityRaises(reporting_period_minutes)
    \/ agents = 0
    \/ /\ agents > 0
       /\ IsZero(Intensity(calls, reporting_period_minutes, average_handling_time))

\* prob = 1 / (1 + ...): ZeroDivisionError, hence 1, when the denominator is 0.
ProbFormula(intensity, agents) ==
    CHOOSE r \in {IF IsZero(d) THEN FOne ELSE FDiv(FOne, d) :
                  d \in {ErlangDenominator(intensity, agents)}} : TRUE

\* max(0, min(prob, 1))
ProbClamp(prob) == FMax(FZero, FMin(prob, FOne))

prob_call_waits(calls, reporting_period_minutes, average_handling_time, agents) ==
    ProbClamp(IF ProbRaises(calls, reporting_period_minutes, average_handling_time,
                            agents)
              THEN FOne
              ELSE ProbFormula(Intensity(calls, reporting_period_minutes,
                                         average_handling_time), agents))

\* ------------------------------------------------------------------------
\* service_level
\* ------------------------------------------------------------------------
\* -(agents - intensity) * service_level_time / average_handling_time
SlExponent(intensity, average_handling_time, service_level_time, agents) ==
    FDiv(FMul(FNeg(FSub(FInt(agents), intensity)), FInt(service_level_time)),
         FInt(average_handling_time))

\* The try block for a non-zero reporting period and handling time: the values
\* sl = 1 - (prob_wait * math.exp(x)) can take, one for each value math.exp can
\* return, or 0 alone when math.exp raises OverflowError.
SlFormula(prob_wait, x) ==
    CHOOSE r \in {IF IsFinite(v) /\ FInf(0) \in es THEN {FZero}
                  ELSE {FSub(FOne, FMul(p, e)) : e \in es} :
                  p \in {prob_wait}, v \in {x}, es \in {Exp(x)}} : TRUE

\* Mutant: the lower clamp is dropped, min(sl, 1).
SlClampUpperOnly(sl) == FMin(sl, FOne)

\* max(0, min(sl, 1))
SlClamp(sl) == FMax(FZero, FMin(sl, FOne))

\* The values the call can return: more than one when the last bit of math.exp
\* shows in the result.
service_level(calls, reporting_period_minutes, average_handling_time, service_level_time, agents) ==
    IF IntensityRaises(reporting_period_minutes) \/ average_handling_time = 0
    THEN {SlClamp(FZero)}
    ELSE {SlClamp(sl) :
             sl \in SlFormula(prob_call_waits(calls, reporting_period_minutes,
                                              average_handling_time, agents),
                              SlExponent(Intensity(calls, reporting_period_minutes,
                                                   average_handling_time),
                                         average_handling_time, service_level_time,
                                         agents))}

\* ------------------------------------------------------------------------
\* occupancy
\* ------------------------------------------------------------------------
OccRaises(reporting_period_minutes, agents) ==
    IntensityRaises(reporting_period_minutes) \/ agents = 0

\* Mutant: min and max are exchanged, min(0.99, max(occ, 0.99)).
OccClampSwapped(occ) ==
    CHOOSE r \in {FMin(cap, FMax(occ, cap)) : cap \in {FDec(OccupancyClamp)}} : TRUE

\* max(0, min(occ, 0.99))
OccClamp(occ) == FMax(FZero, FMin(occ, FDec(OccupancyClamp)))

occupancy(calls, reporting_period_minutes, average_handling_time, agents) ==
    OccClamp(IF OccRaises(reporting_period_minutes, agents)
             THEN FDec(OccupancyClamp)
             ELSE FDiv(Intensity(calls, reporting_period_minutes, average_handling_time),
                       FInt(agents)))

\* ------------------------------------------------------------------------
\* agents_required
\* ------------------------------------------------------------------------
None == -1

\* Mutant: the lower end of the reporting period is excluded (<= for <).
OutOfRangeStrict(reporting_period_minutes, average_handling_time, service_level_target, service_level_time, max_occupancy_target, shrinkage_percent) ==
    \/ reporting_period_minutes <= MinReportingPeriod
    \/ reporting_period_minutes > MaxReportingPeriod
    \/ average_handling_time < MinHandlingTime
    \/ average_handling_time > MaxHandlingTime
    \/ FLess(FDec(service_level_target), FDec(MinServiceLevelTarget))
    \/ FLess(FDec(MaxServiceLevelTarget), FDec(service_level_target))
    \/ FLess(FDec(max_occupancy_target), FDec(MinOccupancyTarget))
    \/ FLess(FDec(MaxOccupancyTarget), FDec(max_occupancy_target))
    \/ service_level_time < MinServiceLevelTime
    \/ service_level_time > MaxServiceLevelTime
    \/ FLess(FDec(shrinkage_percent), FDec(MinShrinkage))
    \/ FLess(FDec(MaxShrinkage), FDec(shrinkage_percent))

\* The validation of the six policy parameters: TRUE when the call returns None.
OutOfRange(reporting_period_minutes, average_handling_time, service_level_target, service_level_time, max_occupancy_target, shrinkage_percent) ==
    \/ reporting_period_minutes < MinReportingPeriod
    \/ reporting_period_minutes > MaxReportingPeriod
    \/ average_handling_time < MinHandlingTime
    \/ average_handling_time > MaxHandlingTime
    \/ FLess(FDec(service_level_target), FDec(MinServiceLevelTarget))
    \/ FLess(FDec(MaxServiceLevelTarget), FDec(service_level_target))
    \/ FLess(FDec(max_occupancy_target), FDec(MinOccupancyTarget))
    \/ FLess(FDec(MaxOccupancyTarget), FDec(max_occupancy_target))
    \/ service_level_time < MinServiceLevelTime
    \/ service_level_time > MaxServiceLevelTime
    \/ FLess(FDec(shrinkage_percent), FDec(MinShrinkage))
    \/ FLess(FDec(MaxShrinkage), FDec(shrinkage_percent))

\* Mutant: the search starts above the load, int(intensity) + 2.
MinAgentsHigh(intensity) == FTrunc(intensity) + 2

\* min_agents = int(intensity), raised to 1.
MinAgents(intensity) ==
    CHOOSE r \in {IF n < 1 THEN 1 ELSE n : n \in {FTrunc(intensity)}} : TRUE

\* Mutant: the loop tests the next agent count instead of the current one.
BelowServiceLevelAhead(calls, reporting_period_minutes, average_handling_time, service_level_target, service_level_time, agents) ==
    {FLess(sl, FDec(service_level_target)) :
        sl \in service_level(calls, reporting_period_minutes, average_handling_time,
                             service_level_time, agents + 1)}

\* The condition of the first while loop: the truth values it can take, one for
\* each value service_level can return.
BelowServiceLevel(calls, reporting_period_minutes, average_handling_time, service_level_target, service_level_time, agents) ==
    {FLess(sl, FDec(service_level_target)) :
        sl \in service_level(calls, reporting_period_minutes, average_handling_time,
                             service_level_time, agents)}

\* The condition of the second while loop.
AboveOccupancy(calls, reporting_period_minutes, average_handling_time, max_occupancy_target, agents) ==
    FLess(FDec(max_occupancy_target),
          occupancy(calls, reporting_period_minutes, average_handling_time, agents))

\* Mutant: the loop body leaves the agent count as it is.
NextAgentsSame(agents) == agents

\* agents += 1, the body of both loops.
NextAgents(agents) == agents + 1

\* Mutant: the clamp to [0, 0.99] is missing.
ShrinkageUnclamped(shrinkage_percent) == FDec(shrinkage_percent)

\* shrinkage_percent = max(0, min(shrinkage_percent, 0.99))
ShrinkageClamped(shrinkage_percent) ==
    FMax(FZero, FMin(FDec(shrinkage_percent), FDec(ShrinkageClamp)))

\* required = agents / (1 - shrinkage_percent)
Required(agents, shrinkage_percent) ==
    FDiv(FInt(agents), FSub(FOne, ShrinkageClamped(shrinkage_percent)))

\* The condition of the st.warning call.
Advisory(required) == FLess(FInt(AdvisoryLimit), required)

\* Mutant: the calls == 0 short-circuit is missing.
ReturnedNoZero(calls, required) == FCeil(required)

\* The value returned after the loops.
Returned(calls, required) == IF calls = 0 THEN 0 ELSE FCeil(required)

\* ------------------------------------------------------------------------
\* Bounds of the model
\* ------------------------------------------------------------------------
\* Largest call volume drawn.
MaxCalls == 6
\* Largest call volume and agent count passed to the three estimators.
MaxProbeCalls == 8
MaxProbeAgents == 6

\* The first while loop run to its end from `agents`: the agent counts it can end
\* with, one for each way its condition can turn out.
RECURSIVE ServiceLevelSearch(_, _, _, _, _, _)
ServiceLevelSearch(calls, reporting_period_minutes, average_handling_time, service_level_target, service_level_time, agents) ==
    CHOOSE r \in {
        (IF FALSE \in b THEN {agents} ELSE {})
        \cup (IF TRUE \in b
              THEN CHOOSE q \in {ServiceLevelSearch(calls, reporting_period_minutes,
                                     average_handling_time, service_level_target,
                                     service_level_time, n) : n \in {agents + 1}} : TRUE
              ELSE {}) :
        b \in {BelowServiceLevel(calls, reporting_period_minutes,
                   average_handling_time, service_level_target, service_level_time,
                   agents)}} : TRUE

\* The second while loop run to its end from `agents`.
RECURSIVE OccupancySearch(_, _, _, _, _)
OccupancySearch(calls, reporting_period_minutes, average_handling_time, max_occupancy_target, agents) ==
    IF AboveOccupancy(calls, reporting_period_minutes, average_handling_time,
                      max_occupancy_target, agents)
    THEN CHOOSE r \in {OccupancySearch(calls, reporting_period_minutes,
                                       average_handling_time, max_occupancy_target, n) :
                       n \in {agents + 1}} : TRUE
    ELSE agents

\* The agent counts that can be held when both loops have finished (before
\* shrinkage).
SearchedAgents(calls, reporting_period_minutes, average_handling_time, service_level_target, service_level_time, max_occupancy_target) ==
    {OccupancySearch(calls, reporting_period_minutes, average_handling_time,
                     max_occupancy_target, n) :
        n \in ServiceLevelSearch(calls, reporting_period_minutes,
                 average_handling_time, service_level_target, service_level_time,
                 MinAgents(Intensity(calls, reporting_period_minutes,
                                     average_handling_time)))}

\* The whole call, as a function of its arguments: the values it can return (None
\* or an integer), a single one unless the last bit of math.exp decides a loop
\* condition.
agents_required(calls, reporting_period_minutes, average_handling_time, service_level_target, service_level_time, max_occupancy_target, shrinkage_percent) ==
    IF OutOfRange(reporting_period_minutes, average_handling_time,
                  service_level_target, service_level_time, max_occupancy_target,
                  shrinkage_percent)
    THEN {None}
    ELSE {Returned(calls, Required(n, shrinkage_percent)) :
             n \in SearchedAgents(calls, reporting_period_minutes,
                       average_handling_time, service_level_target,
                       service_level_time, max_occupancy_target)}

\* ------------------------------------------------------------------------
\* Inputs drawn
\* ------------------------------------------------------------------------
Args(c, rp, aht, slt, t, occt, shr) ==
    [calls |-> c, reporting_period_minutes |-> rp, average_handling_time |-> aht,
     service_level_target |-> slt, service_level_time |-> t,
     max_occupancy_target |-> occt, shrinkage_percent |-> shr]

\* Ordinary policies: every combination of these values.
GridInputs ==
    {Args(c, 5, aht, slt, 30, occt, shr) :
        c \in 0..MaxCalls, aht \in {60, 300}, slt \in {50000, 80000},
        occt \in {50000, 85000}, shr \in {0, 17000, 99000, 99500}}

\* Policies on and just outside each end of each validated interval
\* <<rp, aht, slt, t, occt, shr>>.
EdgePolicies ==
    { <<4, 60, 80000, 30, 85000, 17000>>,     <<5, 60, 80000, 30, 85000, 17000>>,
      <<1500, 60, 80000, 30, 85000, 17000>>,  <<1501, 60, 80000, 30, 85000, 17000>>,
      <<5, 0, 80000, 30, 85000, 17000>>,      <<5, 1, 80000, 30, 85000, 17000>>,
      <<1500, 30000, 80000, 30000, 85000, 17000>>,
      <<1500, 30001, 80000, 30000, 85000, 17000>>,
      <<5, 60, 0, 30, 85000, 17000>>,         <<5, 60, 1, 30, 85000, 17000>>,
      <<5, 60, 99980, 30, 85000, 17000>>,     <<5, 60, 99981, 30, 85000, 17000>>,
      <<5, 60, 100000, 30, 85000, 17000>>,
      <<5, 1, 80000, 0, 85000, 17000>>,       <<5, 1, 80000, 1, 85000, 17000>>,
      <<5, 60, 80000, 30000, 85000, 17000>>,  <<5, 60, 80000, 30001, 85000, 17000>>,
      <<1500, 1, 80000, 30, 0, 17000>>,       <<1500, 1, 80000, 30, 1, 17000>>,
      <<5, 60, 80000, 30, 99980, 17000>>,     <<5, 60, 80000, 30, 99981, 17000>>,
      <<5, 60, 80000, 30, 85000, -1>>,        <<5, 60, 80000, 30, 85000, 0>>,
      <<5, 60, 80000, 30, 85000, 99980>>,     <<5, 60, 80000, 30, 85000, 99981>> }

EdgeInputs ==
    {Args(c, p[1], p[2], p[3], p[4], p[5], p[6]) : c \in 0..MaxCalls, p \in EdgePolicies}

\* The worked scenario (100 calls in 30 minutes of 360 s each); a load whose float
\* intensity falls just below an integer ((13 / 360) * 360 is 12.999999999999998,
\* so the search starts from 12); a search ending at 21 agents with shrinkage 0.3,
\* where the float quotient 21 / (1 - 0.3) lies just above 30; and a negative call
\* count, which a Day Planner CSV can hold.
ScenarioInputs ==
    { Args(100, 30, 360, 80000, 30, 85000, 17000),
      Args(13, 6, 360, 80000, 30, 85000, 17000),
      Args(10, 5, 315, 80000, 30, 50000, 30000),
      Args(-1, 5, 60, 80000, 30, 85000, 17000) }

Inputs == GridInputs \cup EdgeInputs \cup ScenarioInputs

\* ------------------------------------------------------------------------
\* State: one invocation of agents_required, and calls of the three estimators
\* ------------------------------------------------------------------------
VARIABLES
    pc,         \* position in agents_required
    args,       \* its arguments
    agents,     \* its local variable
    warned,     \* whether st.warning has been called
    result,     \* its return value
    probe,      \* arguments passed to the three estimators
    called,     \* the estimators that have returned
    out         \* the values they returned

vars == <<pc, args, agents, warned, result, probe, called, out>>

solver == <<pc, args, agents, warned, result>>

estimators == <<probe, called, out>>

NoOutput == [prob_wait |-> FZero, sl |-> FZero, occ |-> FZero]

Init ==
    /\ pc = "validate"
    /\ args \in Inputs
    /\ agents = 0
    /\ warned = FALSE
    /\ result = None
    /\ probe = [calls |-> 0, reporting_period_minutes |-> 0,
                average_handling_time |-> 0, service_level_time |-> 0, agents |-> 0]
    /\ called = {}
    /\ out = NoOutput

ArgsOutOfRange ==
    OutOfRange(args.reporting_period_minutes, args.average_handling_time,
               args.service_level_target, args.service_level_time,
               args.max_occupancy_target, args.shrinkage_percent)

ArgsIntensity ==
    Intensity(args.calls, args.reporting_period_minutes, args.average_handling_time)

ArgsBelowServiceLevel(n) ==
    BelowServiceLevel(args.calls, args.reporting_period_minutes,
                      args.average_handling_time, args.service_level_target,
                      args.service_level_time, n)

ArgsAboveOccupancy(n) ==
    AboveOccupancy(args.calls, args.reporting_period_minutes,
                   args.average_handling_time, args.max_occupancy_target, n)

\* Lines 57-63: an out-of-range policy returns None before any search.
Reject ==
    /\ pc = "validate"
    /\ ArgsOutOfRange
    /\ result' = None
    /\ pc' = "done"
    /\ UNCHANGED <<args, agents, warned, estimators>>

\* Lines 65-70: the starting candidate.
Start ==
    /\ pc = "validate"
    /\ ~ArgsOutOfRange
    /\ agents' = MinAgents(ArgsIntensity)
    /\ pc' = "service_level_loop"
    /\ UNCHANGED <<args, warned, result, estimators>>

\* Lines 73-74: one pass of the first loop, when service_level returns a value
\* below the target.
ServiceLevelStep ==
    /\ pc = "service_level_loop"
    /\ TRUE \in ArgsBelowServiceLevel(agents)
    /\ agents' = NextAgents(agents)
    /\ UNCHANGED <<pc, args, warned, result, estimators>>

\* Line 73: service_level returns a value not below the target.
ServiceLevelMet ==
    /\ pc = "service_level_loop"
    /\ FALSE \in ArgsBelowServiceLevel(agents)
    /\ pc' = "occupancy_loop"
    /\ UNCHANGED <<args, agents, warned, result, estimators>>

\* Lines 77-78: one pass of the second loop.
OccupancyStep ==
    /\ pc = "occupancy_loop"
    /\ ArgsAboveOccupancy(agents)
    /\ agents' = NextAgents(agents)
    /\ UNCHANGED <<pc, args, warned, result, estimators>>

\* Line 77: the second loop's condition is false.
OccupancyMet ==
    /\ pc = "occupancy_loop"
    /\ ~ArgsAboveOccupancy(agents)
    /\ pc' = "shrinkage"
    /\ UNCHANGED <<args, agents, warned, result, estimators>>

\* Lines 81-90: shrinkage, the advisory, and the return.
Finish ==
    /\ pc = "shrinkage"
    /\ warned' = Advisory(Required(agents, args.shrinkage_percent))
    /\ result' = Returned(args.calls, Required(agents, args.shrinkage_percent))
    /\ pc' = "done"
    /\ UNCHANGED <<args, agents, estimators>>

Next ==
    \/ Reject
    \/ Start
    \/ ServiceLevelStep
    \/ ServiceLevelMet
    \/ OccupancyStep
    \/ OccupancyMet
    \/ Finish

Spec == Init /\ [][Next]_vars

\* The scheduler runs the invocation to its end: every enabled step is taken.
LiveSpec == Init /\ [][Next]_vars /\ WF_vars(Next)

\* ------------------------------------------------------------------------
\* The three estimators as functions of their arguments: each is called once on
\* the arguments drawn, in any order.  The arguments include what a caller other
\* than the forms can pass: a zero reporting period, handling time, waiting time
\* or agent count.
\* ------------------------------------------------------------------------
\* A load of about 1.3 * 10^16 Erlangs, beyond 2^53, where floats no longer tell
\* neighbouring integers apart.
ExtremeLoad == [calls |-> 2023317399, average_handling_time |-> 1992455312]

Probes ==
    [calls : 0..MaxProbeCalls \cup {ExtremeLoad.calls},
     reporting_period_minutes : {0, 5},
     average_handling_time : {0, 60, 150, ExtremeLoad.average_handling_time},
     service_level_time : {0, 30, 30000},
     agents : 0..MaxProbeAgents]

CallInit ==
    /\ pc = "idle"
    /\ args \in {Args(100, 30, 360, 80000, 30, 85000, 17000)}
    /\ agents = 0
    /\ warned = FALSE
    /\ result = None
    /\ probe \in Probes
    /\ called = {}
    /\ out = NoOutput

\* Lines 11-27.
CallProbWaits ==
    /\ "prob_call_waits" \notin called
    /\ out' = [out EXCEPT !.prob_wait =
                   prob_call_waits(probe.calls, probe.reporting_period_minutes,
                                   probe.average_handling_time, probe.agents)]
    /\ called' = called \cup {"prob_call_waits"}
    /\ UNCHANGED <<probe, solver>>

\* Lines 29-39: any of the values the call can return.
CallServiceLevel ==
    /\ "service_level" \notin called
    /\ \E sl \in service_level(probe.calls, probe.reporting_period_minutes,
                               probe.average_handling_time,
                               probe.service_level_time, probe.agents) :
          out' = [out EXCEPT !.sl = sl]
    /\ called' = called \cup {"service_level"}
    /\ UNCHANGED <<probe, solver>>

\* Lines 41-50.
CallOccupancy ==
    /\ "occupancy" \notin called
    /\ out' = [out EXCEPT !.occ =
                   occupancy(probe.calls, probe.reporting_period_minutes,
                             probe.average_handling_time, probe.agents)]
    /\ called' = called \cup {"occupancy"}
    /\ UNCHANGED <<probe, solver>>

CallNext == CallProbWaits \/ CallServiceLevel \/ CallOccupancy

CallSpec == CallInit /\ [][CallNext]_vars

\* ------------------------------------------------------------------------
\* Properties
\* ------------------------------------------------------------------------
\* The stepwise invocation returns one of the values the function can return.
StepsAgree ==
    pc = "done" =>
        result \in agents_required(args.calls, args.reporting_period_minutes,
                                   args.average_handling_time,
                                   args.service_level_target, args.service_level_time,
                                   args.max_occupancy_target, args.shrinkage_percent)

\* All six policy parameters lie in their closed valid intervals.
ArgsInRange ==
    /\ args.reporting_period_minutes \in 5..1500
    /\ args.average_handling_time \in 1..30000
    /\ args.service_level_target \in 1..99980
    /\ args.max_occupancy_target \in 1..99980
    /\ args.service_level_time \in 1..30000
    /\ args.shrinkage_percent \in 0..99980

\* The values of service_level(..., n) for the invocation's arguments.
ArgsServiceLevel(n) ==
    service_level(args.calls, args.reporting_period_minutes,
                  args.average_handling_time, args.service_level_time, n)

\* service_level(..., n) >= service_level_target whichever value it returns.
MeetsServiceLevel(n) ==
    \A sl \in ArgsServiceLevel(n) : FLeq(FDec(args.service_level_target), sl)

\* service_level(..., n) >= service_level_target for some value it can return.
MayMeetServiceLevel(n) ==
    \E sl \in ArgsServiceLevel(n) : FLeq(FDec(args.service_level_target), sl)

\* occupancy(..., n) <= max_occupancy_target for the invocation's arguments.
WithinOccupancy(n) ==
    FLeq(occupancy(args.calls, args.reporting_period_minutes,
                   args.average_handling_time, n),
         FDec(args.max_occupancy_target))

\* The agent counts the first loop can end with.
AfterServiceLevelLoop ==
    ServiceLevelSearch(args.calls, args.reporting_period_minutes,
                       args.average_handling_time, args.service_level_target,
                       args.service_level_time, MinAgents(ArgsIntensity))

\* C1: agents_required returns None exactly when some policy parameter lies outside
\* its closed interval; the check precedes the search (no agent count is ever
\* assigned and no advisory issued for a rejected call); an in-range call returns an
\* integer >= 0.
C1_NoneIffOutOfRange ==
    /\ pc = "done" => ((result = None) <=> ~ArgsInRange)
    /\ (pc = "done" /\ ArgsInRange) => result >= 0
    /\ ~ArgsInRange => (agents = 0 /\ ~warned /\ pc \in {"validate", "done"})

\* C1 witness: a call with service_level_target = 1.0 has returned None.
C1_Witness ==
    pc = "done" /\ result = None /\ args.service_level_target = 100000

\* C2: with calls = 0 and an in-range policy the call returns exactly 0.
C2_ZeroCallsZeroAgents ==
    (pc = "done" /\ ArgsInRange /\ args.calls = 0) => result = 0

\* C2 witness: a zero-call invocation whose loops reached more than one agent has
\* returned 0.
C2_Witness ==
    pc = "done" /\ ArgsInRange /\ args.calls = 0 /\ agents > 1 /\ result = 0

\* C3: once the first loop has ended the agent count meets the service-level
\* target, and it still does, together with the occupancy cap, when both loops have
\* ended (whichever of its values service_level returns).
C3_SearchResultFeasible ==
    /\ (pc = "occupancy_loop" /\ ArgsInRange) => MeetsServiceLevel(agents)
    /\ (pc \in {"shrinkage", "done"} /\ ArgsInRange) =>
           (MeetsServiceLevel(agents) /\ WithinOccupancy(agents))

\* C3 witness: both loops have ended and the occupancy loop added agents to what
\* the service-level loop found.
C3_Witness ==
    /\ pc = "shrinkage"
    /\ args.calls > 0
    /\ \A n \in AfterServiceLevelLoop : agents > n

\* C4: for calls > 0 the agent count found is the least n >= 1 meeting both the
\* service-level target and the occupancy cap: it meets both, and no smaller n
\* meets both for any value service_level can return.
C4_SearchResultMinimal ==
    (pc \in {"shrinkage", "done"} /\ ArgsInRange /\ args.calls > 0) =>
        /\ MeetsServiceLevel(agents) /\ WithinOccupancy(agents)
        /\ \A n \in 1..(agents - 1) : ~(MayMeetServiceLevel(n) /\ WithinOccupancy(n))

\* C4 witness: the worked scenario (20 Erlangs) has ended with 25 agents, 31 after
\* shrinkage, so counts below the starting floor of 20 are among those excluded.
C4_Witness ==
    pc = "done" /\ args.calls = 100 /\ agents = 25 /\ result = 31

\* C5: every invocation ends.
C5_Terminates == <>(pc = "done")

\* C5 witness: an in-range invocation has ended after both loops iterated.
C5_Witness ==
    /\ pc = "done"
    /\ ArgsInRange
    /\ \A n \in AfterServiceLevelLoop : n > MinAgents(ArgsIntensity) /\ agents > n

\* The probe's intensity, for a non-zero reporting period.
ProbeIntensity ==
    Intensity(probe.calls, probe.reporting_period_minutes, probe.average_handling_time)

\* The probe's load makes the Erlang-C formula degenerate: no agents, no traffic,
\* or agents <= intensity.
ProbeDegenerate ==
    \/ probe.agents = 0
    \/ probe.calls = 0
    \/ probe.average_handling_time = 0
    \/ FLeq(FInt(probe.agents), ProbeIntensity)

\* C6: prob_call_waits returns exactly 1 in every degenerate regime.
C6_DegenerateWaitsCertain ==
    ("prob_call_waits" \in called /\ probe.reporting_period_minutes > 0
     /\ ProbeDegenerate) =>
        FEq(out.prob_wait, FOne)

\* math.exp overflows in service_level.
ProbeExpOverflows ==
    /\ probe.reporting_period_minutes > 0
    /\ probe.average_handling_time > 0
    /\ ExpOverflows(SlExponent(ProbeIntensity, probe.average_handling_time,
                               probe.service_level_time, probe.agents))

\* C7: prob_call_waits and service_level return values in [0, 1], occupancy in
\* [0, 0.99]; on an arithmetic failure they return 1, 0 and 0.99.
C7_RangesAndDefaults ==
    /\ "prob_call_waits" \in called =>
           /\ FLeq(FZero, out.prob_wait) /\ FLeq(out.prob_wait, FOne)
           /\ (\/ probe.reporting_period_minutes = 0
               \/ probe.agents = 0
               \/ probe.calls = 0
               \/ probe.average_handling_time = 0) => FEq(out.prob_wait, FOne)
    /\ "service_level" \in called =>
           /\ FLeq(FZero, out.sl) /\ FLeq(out.sl, FOne)
           /\ (\/ probe.reporting_period_minutes = 0
               \/ probe.average_handling_time = 0
               \/ ProbeExpOverflows) => FEq(out.sl, FZero)
    /\ "occupancy" \in called =>
           /\ FLeq(FZero, out.occ) /\ FLeq(out.occ, FDec(99000))
           /\ (probe.reporting_period_minutes = 0 \/ probe.agents = 0) =>
                  FEq(out.occ, FDec(99000))

\* C7 witness: with a zero reporting period all three computations fail and the
\* three defaults have been returned.
C7_Witness ==
    /\ called = {"prob_call_waits", "service_level", "occupancy"}
    /\ probe.reporting_period_minutes = 0
    /\ probe.calls > 0
    /\ out = [prob_wait |-> FOne, sl |-> FZero, occ |-> FDec(99000)]

\* C8: for a fixed load, service_level does not decrease when agents are added.
C8_ServiceLevelMonotone ==
    ("service_level" \in called /\ probe.agents >= 1) =>
        \A n \in (probe.agents + 1)..MaxProbeAgents :
            \A sl \in service_level(probe.calls, probe.reporting_period_minutes,
                                    probe.average_handling_time,
                                    probe.service_level_time, n) :
                FLeq(out.sl, sl)

\* min(shrinkage_percent, 0.99)
CappedShrinkage == FMin(FDec(args.shrinkage_percent), FDec(99000))

\* agents / (1 - min(shrinkage_percent, 0.99)) for the agent count found.
Inflated == FDiv(FInt(agents), FSub(FOne, CappedShrinkage))

\* C9: for calls > 0 the value returned is ceil(agents / (1 - min(shrinkage, 0.99))),
\* the least integer not below that quotient.  It is never below agents, and a
\* shrinkage in (0.99, 0.9998] is accepted and returns what 0.99 returns.
C9_ShrinkageInflation ==
    (pc = "done" /\ ArgsInRange /\ args.calls > 0) =>
        /\ FLeq(Inflated, FInt(result))
        /\ FLess(FInt(result - 1), Inflated)
        /\ result >= agents
        /\ args.shrinkage_percent > 99000 =>
               result \in agents_required(args.calls, args.reporting_period_minutes,
                              args.average_handling_time,
                              args.service_level_target, args.service_level_time,
                              args.max_occupancy_target, 99000)

\* C9 witness: a call with shrinkage 0.995 has returned what 0.99 gives, the least
\* integer not below agents / (1 - 0.99).
C9_Witness ==
    /\ pc = "done"
    /\ args.calls > 0
    /\ args.shrinkage_percent = 99500
    /\ agents > 1
    /\ result = FCeil(FDiv(FInt(agents), FSub(FOne, FDec(99000))))

\* C10: the advisory has been issued exactly when the returned value exceeds 600.
C10_AdvisoryIffReturnedOver600 ==
    (pc = "done" /\ ArgsInRange) => (warned <=> result > 600)
====
